---- MODULE Spec2Model ----
(***************************************************************************)
(* GPU temperature watchdog (gpu_watchdog.py): the monitoring loop         *)
(* GPUWatchdog.run, process discovery find_trex_processes and the tiered   *)
(* shutdown graceful_shutdown_trex, together with the environment they     *)
(* act on: the processes, the operator's Ctrl-C and failing library calls. *)
(***************************************************************************)
EXTENDS Integers, Sequences, FiniteSets, TLC

\* ------------------------------------------------------------------ bounds
NumProcs == 2          \* processes in the system, pids 1..NumProcs
MaxGrace == 7          \* configured grace_period ranges over 0..MaxGrace
MaxInterrupts == 1     \* Ctrl-C presses delivered during one run

\* ------------------------------------------------------ program constants
temp_threshold == 85   \* Config.temp_threshold
check_interval == 10   \* Config.check_interval
DefaultGrace == 30     \* Config.grace_period default
SettleDelay == 2       \* time.sleep(2) after the interrupt signal
PollStep == 5          \* time.sleep(5) / range step of the grace wait
Cooldown == 60         \* time.sleep(60) after a shutdown

\* Optional[float]: None is coded as -1; a parsed reading is never negative
None == -1
Procs == 1..NumProcs
GracePeriods == (0..MaxGrace) \cup {DefaultGrace}
Readings == {None} \cup ((temp_threshold - 1)..(temp_threshold + 1))

\* ----------------------------------------------------------------- strings
\* A string is a sequence of one-character strings.
UpperCase == <<"A","B","C","D","E","F","G","H","I","J","K","L","M",
               "N","O","P","Q","R","S","T","U","V","W","X","Y","Z">>
LowerCase == <<"a","b","c","d","e","f","g","h","i","j","k","l","m",
               "n","o","p","q","r","s","t","u","v","w","x","y","z">>

LowerChar(c) ==
    IF \E i \in 1..26 : UpperCase[i] = c
    THEN LowerCase[CHOOSE i \in 1..26 : UpperCase[i] = c]
    ELSE c

\* str.lower()
Lower(s) == [i \in 1..Len(s) |-> LowerChar(s[i])]

\* `sub in s` on strings
Contains(sub, s) ==
    \E k \in 0..(Len(s) - Len(sub)) :
        \A i \in 1..Len(sub) : s[k + i] = sub[i]

\* Config.trex_process_names default
trex_process_names ==
    << <<"t","-","r","e","x",".","e","x","e">>,
       <<"t","r","e","x",".","e","x","e">>,
       <<"t","-","r","e","x">>,
       <<"t","r","e","x">> >>

\* The literals of the command-line test
CmdlineTokens == { <<"t","-","r","e","x">>, <<"t","r","e","x">> }

NameMatchExact(names, pname) ==
    \E n \in 1..Len(names) : Lower(names[n]) = Lower(pname)

\* any(trex_name.lower() in process_name for trex_name in trex_process_names)
NameMatch(names, pname) ==
    \E n \in 1..Len(names) : Contains(Lower(names[n]), Lower(pname))

CmdlineMatchCased(cmd) == \E t \in CmdlineTokens : Contains(t, cmd)

\* 't-rex' in cmdline or 'trex' in cmdline
CmdlineMatch(cmd) == \E t \in CmdlineTokens : Contains(t, Lower(cmd))

\* the if / elif of one process: by name or, failing that, by command line
EntryMatches(names, pname, cmd) == NameMatch(names, pname) \/ CmdlineMatch(cmd)

RECURSIVE MatchFrom(_, _, _)
\* the for loop of find_trex_processes over entries i.. of a snapshot (a
\* sequence of [name, cmdline]); a handle is the position in the snapshot
MatchFrom(names, snap, i) ==
    IF i > Len(snap) THEN <<>>
    ELSE (IF EntryMatches(names, snap[i].name, snap[i].cmdline)
          THEN <<i>> ELSE <<>>) \o MatchFrom(names, snap, i + 1)

\* find_trex_processes with config names `names` over snapshot `snap`
MatchSnapshot(names, snap) == MatchFrom(names, snap, 1)

\* The process table the enumeration sees: name and joined command line of
\* each pid.  Pids = 1 mod 3 are miners by name, pids = 2 mod 3 are miners
\* started through a wrapper (found by command line), the rest are unrelated.
ProcName(p) ==
    CASE p % 3 = 1 -> <<"T","-","R","e","x",".","E","X","E">>
      [] p % 3 = 2 -> <<"s","h">>
      [] OTHER     -> <<"b","a","s","h">>

ProcCmdline(p) ==
    CASE p % 3 = 1 -> <<>>
      [] p % 3 = 2 -> <<"s","h"," ","T","R","e","x"," ","-","a">>
      [] OTHER     -> <<"b","a","s","h">>

\* The test of one process in find_trex_processes
NameMatches(p) == NameMatch(trex_process_names, ProcName(p))

CmdlineMatches(p) == CmdlineMatch(ProcCmdline(p))

IsTrex(p) == NameMatches(p) \/ CmdlineMatches(p)

RECURSIVE IterMatch(_, _)
\* the for loop of find_trex_processes over pids p..NumProcs of the snapshot
IterMatch(p, live) ==
    IF p > NumProcs THEN <<>>
    ELSE (IF live[p] /\ IsTrex(p) THEN <<p>> ELSE <<>>) \o IterMatch(p + 1, live)

find_trex_processes(live) == IterMatch(1, live)

\* ------------------------------------------------------------------- state
VARIABLES
    platform,              \* os.name: "nt" or "posix"
    grace_period,          \* Config.grace_period
    alive,                 \* the OS: which pids are running
    pc,                    \* where the watchdog is
    running,               \* self.running
    stopReason,            \* which handler of run() ended the loop
    current_temp,          \* current_temp of this tick
    enumerated,            \* find_trex_processes was called in this tick
    trex_processes,        \* the targets of this tick
    idx,                   \* position of the interrupt-phase for loop
    terminated_processes,  \* terminated_processes of the call
    remaining,             \* the countdown variable of the grace wait
    killPending,           \* `alive` of the call: still to be force-killed
    sent,                  \* per pid, the signals attempted in this call
    outcome,               \* per pid, the outcomes logged in this call
    slept,                 \* seconds slept in this call
    graceSlept,            \* seconds slept in the grace wait of this call
    graceRan,              \* the grace wait was entered in this call
    aliveAtGraceEnd,       \* targets running when the grace wait ended
    goneAtRecheck,         \* targets found exited at the recheck
    returned,              \* the call has returned normally
    lastTick,              \* what the previous tick did
    interrupts,            \* Ctrl-C presses delivered so far
    intInFlight,           \* a Ctrl-C arrived in an orchestration in flight
    tickAfterInt,          \* a tick began after a Ctrl-C was delivered
    mode,                  \* main(): "normal", "test" (--test-mode), "dry" (--dry-run)
    reported,              \* the processes main() has printed
    fnArgs,                \* the arguments of a function called on its own
    fnResult               \* its result

cfgVars  == <<platform, grace_period, mode, reported, fnArgs, fnResult>>
callVars == <<idx, terminated_processes, remaining, killPending, sent, outcome,
              slept, graceSlept, graceRan, aliveAtGraceEnd, goneAtRecheck,
              returned>>
histVars == <<interrupts, intInFlight, tickAfterInt>>
vars == <<platform, grace_period, alive, pc, running, stopReason, current_temp,
          enumerated, trex_processes, idx, terminated_processes, remaining,
          killPending, sent, outcome, slept, graceSlept, graceRan,
          aliveAtGraceEnd, goneAtRecheck, returned, lastTick, interrupts,
          intInFlight, tickAfterInt, mode, reported, fnArgs, fnResult>>

\* One attempted signal call: which signal, how the call ended, and the
\* seconds the call had slept when it was made.
Attempt(sig, res) == [sig |-> sig, res |-> res, at |-> slept]

NoTick == [found |-> FALSE, orch |-> FALSE, sleep |-> "none", secs |-> 0]

Init ==
    /\ platform \in {"nt", "posix"}
    /\ grace_period \in GracePeriods
    /\ alive = [p \in Procs |-> TRUE]
    /\ pc = "tick"
    /\ running = TRUE
    /\ stopReason = "none"
    /\ current_temp = None
    /\ enumerated = FALSE
    /\ trex_processes = <<>>
    /\ idx = 0
    /\ terminated_processes = <<>>
    /\ remaining = 0
    /\ killPending = {}
    /\ sent = [p \in Procs |-> <<>>]
    /\ outcome = [p \in Procs |-> {}]
    /\ slept = 0
    /\ graceSlept = 0
    /\ graceRan = FALSE
    /\ aliveAtGraceEnd = {}
    /\ goneAtRecheck = {}
    /\ returned = FALSE
    /\ lastTick = NoTick
    /\ interrupts = 0
    /\ intInFlight = FALSE
    /\ tickAfterInt = FALSE
    /\ mode = "normal"
    /\ reported = <<>>
    /\ fnArgs = <<>>
    /\ fnResult = <<>>


\* ------------------------------------------------------- the environment
Range(s) == {s[i] : i \in 1..Len(s)}

\* What a signal call on pid p can do: psutil raises NoSuchProcess for a pid
\* that is gone; for a running one the call succeeds or raises
\* AccessDenied / OSError.
SignalResults(p) == IF alive[p] THEN {"ok", "denied"} ELSE {"gone"}

\* A process exits (by itself, or in answer to a signal sent earlier).
ProcExit(p) ==
    /\ pc # "stopped"
    /\ alive[p]
    /\ alive' = [alive EXCEPT ![p] = FALSE]
    /\ UNCHANGED <<cfgVars, pc, running, stopReason, current_temp, enumerated,
                   trex_processes, callVars, lastTick, histVars>>

\* ------------------------------------------------------- GPUWatchdog.run
ExceedsStrict(t) == t > temp_threshold

\* current_temp >= self.config.temp_threshold
Exceeds(t) == t >= temp_threshold

PostShutdownPauseShort == check_interval

\* time.sleep(60) after graceful_shutdown_trex
PostShutdownPause == Cooldown

\* while self.running: current_temp = self.get_gpu_temperature()
Sample ==
    /\ pc = "tick"
    /\ running
    /\ \E r \in Readings : current_temp' = r
    /\ pc' = "check"
    /\ enumerated' = FALSE
    /\ trex_processes' = <<>>
    /\ lastTick' = NoTick
    /\ tickAfterInt' = (tickAfterInt \/ interrupts > 0)
    /\ UNCHANGED <<cfgVars, alive, running, stopReason, callVars, interrupts,
                   intInFlight>>

\* if current_temp is None: warning, then sleep check_interval
CheckUnavailable ==
    /\ pc = "check"
    /\ current_temp = None
    /\ pc' = "sleep_poll"
    /\ UNCHANGED <<cfgVars, alive, running, stopReason, current_temp, enumerated,
                   trex_processes, callVars, lastTick, histVars>>

\* else branch of the threshold test: sleep check_interval
CheckSafe ==
    /\ pc = "check"
    /\ current_temp # None
    /\ ~Exceeds(current_temp)
    /\ pc' = "sleep_poll"
    /\ UNCHANGED <<cfgVars, alive, running, stopReason, current_temp, enumerated,
                   trex_processes, callVars, lastTick, histVars>>

\* threshold reached: trex_processes = self.find_trex_processes()
CheckHot ==
    /\ pc = "check"
    /\ current_temp # None
    /\ Exceeds(current_temp)
    /\ enumerated' = TRUE
    /\ trex_processes' = find_trex_processes(alive)
    /\ lastTick' = [lastTick EXCEPT !.found = (trex_processes' # <<>>)]
    /\ pc' = IF trex_processes' # <<>> THEN "shutdown" ELSE "sleep_poll"
    /\ UNCHANGED <<cfgVars, alive, running, stopReason, current_temp, callVars,
                   histVars>>

\* time.sleep(self.config.check_interval), then the next iteration
SleepPoll ==
    /\ pc = "sleep_poll"
    /\ lastTick' = [lastTick EXCEPT !.sleep = "poll", !.secs = check_interval]
    /\ pc' = "tick"
    /\ UNCHANGED <<cfgVars, alive, running, stopReason, current_temp, enumerated,
                   trex_processes, callVars, histVars>>

\* time.sleep(60) after the shutdown, then the next iteration; the locals
\* of the finished call are gone
CooldownSleep ==
    /\ pc = "cooldown"
    /\ lastTick' = [lastTick EXCEPT !.sleep = "cooldown", !.secs = PostShutdownPause]
    /\ pc' = "tick"
    /\ idx' = 0
    /\ terminated_processes' = <<>>
    /\ remaining' = 0
    /\ killPending' = {}
    /\ sent' = [p \in Procs |-> <<>>]
    /\ outcome' = [p \in Procs |-> {}]
    /\ slept' = 0
    /\ graceSlept' = 0
    /\ graceRan' = FALSE
    /\ aliveAtGraceEnd' = {}
    /\ goneAtRecheck' = {}
    /\ returned' = FALSE
    /\ intInFlight' = FALSE
    /\ UNCHANGED <<cfgVars, alive, running, stopReason, current_temp, enumerated,
                   trex_processes, interrupts, tickAfterInt>>

\* ------------------------------------- GPUWatchdog.graceful_shutdown_trex
Targets == Range(trex_processes)

NextRemainingSlow(r) == r - 1

\* the step of range(self.config.grace_period, 0, -5)
NextRemaining(r) == r - PollStep

ForceKillAll(stillAlive) == Targets

\* `alive`, the list the force-kill loop walks
ForceKillSet(stillAlive) == stillAlive

\* The end of one iteration of the for loop of the interrupt phase, with
\* `term` the value of terminated_processes: the next target, or the test
\* `if terminated_processes:` that opens the grace wait or skips it.
AdvanceFrom(i, term) ==
    IF i < Len(trex_processes)
    THEN /\ idx' = i + 1
         /\ pc' = "send_int"
         /\ UNCHANGED <<remaining, graceRan, killPending, aliveAtGraceEnd>>
    ELSE /\ idx' = idx
         /\ IF term # <<>>
            THEN /\ pc' = "grace_poll"
                 /\ remaining' = grace_period
                 /\ graceRan' = TRUE
                 /\ UNCHANGED <<killPending, aliveAtGraceEnd>>
            ELSE /\ pc' = "force_kill"
                 /\ killPending' = ForceKillSet({})
                 /\ aliveAtGraceEnd' = {p \in Targets : alive[p]}
                 /\ UNCHANGED <<remaining, graceRan>>

AdvanceLoop(term) == AdvanceFrom(idx, term)

ErrorResumeAbort(i) == Len(trex_processes)

\* An except clause of the outer try (lines 179-182) ends iteration i: the
\* try is inside the for loop, so the loop goes on after position i.
ErrorResume(i) == i

AfterTerminateDrop(term, p) == term

\* line 177 after a terminate() that did not raise
AfterTerminate(term, p) == Append(term, p)

AfterRecheckGoneKeep(term, p) == Append(term, p)

\* `continue` of line 159/172: the exited target is not appended
AfterRecheckGone(term, p) == term

ShutdownImplUnpatched(m) == "graceful_shutdown_trex"

\* watchdog.graceful_shutdown_trex = test_shutdown under --test-mode
ShutdownImpl(m) == IF m = "test" THEN "test_shutdown" ELSE "graceful_shutdown_trex"

\* an entry that looks for targets itself when it is handed none
ShutdownBeginRefind ==
    /\ pc = "shutdown"
    /\ ShutdownImpl(mode) = "graceful_shutdown_trex"
    /\ trex_processes' = IF trex_processes = <<>> THEN find_trex_processes(alive)
                         ELSE trex_processes
    /\ terminated_processes' = <<>>
    /\ remaining' = 0
    /\ killPending' = {}
    /\ sent' = [p \in Procs |-> <<>>]
    /\ outcome' = [p \in Procs |-> {}]
    /\ slept' = 0
    /\ graceSlept' = 0
    /\ graceRan' = FALSE
    /\ aliveAtGraceEnd' = {}
    /\ goneAtRecheck' = {}
    /\ intInFlight' = FALSE
    /\ IF trex_processes' = <<>>
       THEN /\ returned' = TRUE
            /\ idx' = 0
            /\ pc' = "cooldown"
       ELSE /\ returned' = FALSE
            /\ idx' = 1
            /\ pc' = "send_int"
    /\ UNCHANGED <<cfgVars, alive, running, stopReason, current_temp, enumerated,
                   lastTick, interrupts, tickAfterInt>>

\* entry: `if not processes: return True`, else the locals of the call
ShutdownBegin ==
    /\ pc = "shutdown"
    /\ ShutdownImpl(mode) = "graceful_shutdown_trex"
    /\ terminated_processes' = <<>>
    /\ remaining' = 0
    /\ killPending' = {}
    /\ sent' = [p \in Procs |-> <<>>]
    /\ outcome' = [p \in Procs |-> {}]
    /\ slept' = 0
    /\ graceSlept' = 0
    /\ graceRan' = FALSE
    /\ aliveAtGraceEnd' = {}
    /\ goneAtRecheck' = {}
    /\ intInFlight' = FALSE
    /\ IF trex_processes = <<>>
       THEN /\ returned' = TRUE
            /\ idx' = 0
            /\ pc' = "cooldown"
       ELSE /\ returned' = FALSE
            /\ idx' = 1
            /\ pc' = "send_int"
    /\ UNCHANGED <<cfgVars, alive, running, stopReason, current_temp, enumerated,
                   trex_processes, lastTick, interrupts, tickAfterInt>>

\* proc.send_signal(signal.CTRL_C_EVENT) / proc.send_signal(signal.SIGINT)
SendInterrupt ==
    /\ pc = "send_int"
    /\ LET p == trex_processes[idx] IN
       \E r \in SignalResults(p) :
          /\ sent' = [sent EXCEPT ![p] = Append(@, Attempt("int", r))]
          /\ CASE r = "ok" ->
                    /\ pc' = "settle"
                    /\ UNCHANGED <<idx, remaining, graceRan, killPending,
                                   aliveAtGraceEnd, outcome>>
               [] r = "denied" ->
                    \* except (OSError, psutil.AccessDenied) / bare except
                    /\ pc' = "fallback"
                    /\ UNCHANGED <<idx, remaining, graceRan, killPending,
                                   aliveAtGraceEnd, outcome>>
               [] r = "gone" /\ platform = "posix" ->
                    \* the bare except catches NoSuchProcess too
                    /\ pc' = "fallback"
                    /\ UNCHANGED <<idx, remaining, graceRan, killPending,
                                   aliveAtGraceEnd, outcome>>
               [] r = "gone" /\ platform = "nt" ->
                    \* except psutil.NoSuchProcess of the outer try
                    /\ outcome' = [outcome EXCEPT ![p] = @ \cup {"alreadyGone"}]
                    /\ AdvanceFrom(ErrorResume(idx), terminated_processes)
    /\ UNCHANGED <<cfgVars, alive, running, stopReason, current_temp, enumerated,
                   trex_processes, terminated_processes, slept, graceSlept,
                   goneAtRecheck, returned, lastTick, histVars>>

\* time.sleep(2)
Settle ==
    /\ pc = "settle"
    /\ slept' = slept + SettleDelay
    /\ pc' = "recheck"
    /\ UNCHANGED <<cfgVars, alive, running, stopReason, current_temp, enumerated,
                   trex_processes, idx, terminated_processes, remaining,
                   killPending, sent, outcome, graceSlept, graceRan,
                   aliveAtGraceEnd, goneAtRecheck, returned, lastTick, histVars>>

\* proc.is_running(): `continue` when it exited, else
\* terminated_processes.append(proc)
Recheck ==
    /\ pc = "recheck"
    /\ LET p == trex_processes[idx] IN
       IF alive[p]
       THEN /\ terminated_processes' = Append(terminated_processes, p)
            /\ AdvanceLoop(terminated_processes')
            /\ UNCHANGED <<outcome, goneAtRecheck>>
       ELSE /\ outcome' = [outcome EXCEPT ![p] = @ \cup {"gracefullyExited"}]
            /\ goneAtRecheck' = goneAtRecheck \cup {p}
            /\ terminated_processes' = AfterRecheckGone(terminated_processes, p)
            /\ AdvanceLoop(terminated_processes')
    /\ UNCHANGED <<cfgVars, alive, running, stopReason, current_temp, enumerated,
                   trex_processes, sent, slept, graceSlept, returned, lastTick,
                   histVars>>

\* proc.terminate() in the except branch, then the append of line 177 or
\* one of the two handlers of the outer try
Fallback ==
    /\ pc = "fallback"
    /\ LET p == trex_processes[idx] IN
       \E r \in SignalResults(p) :
          /\ sent' = [sent EXCEPT ![p] = Append(@, Attempt("term", r))]
          /\ CASE r = "ok" ->
                    /\ terminated_processes' = AfterTerminate(terminated_processes, p)
                    /\ AdvanceLoop(terminated_processes')
                    /\ UNCHANGED outcome
               [] r = "gone" ->
                    \* except psutil.NoSuchProcess: "already terminated"
                    /\ outcome' = [outcome EXCEPT ![p] = @ \cup {"alreadyGone"}]
                    /\ AdvanceFrom(ErrorResume(idx), terminated_processes)
                    /\ UNCHANGED terminated_processes
               [] r = "denied" ->
                    \* except Exception: "Error terminating process"
                    /\ AdvanceFrom(ErrorResume(idx), terminated_processes)
                    /\ UNCHANGED <<terminated_processes, outcome>>
    /\ UNCHANGED <<cfgVars, alive, running, stopReason, current_temp, enumerated,
                   trex_processes, slept, graceSlept, goneAtRecheck, returned,
                   lastTick, histVars>>

\* one pass of `for remaining in range(grace_period, 0, -5)` up to the sleep:
\* the range is exhausted, or alive_count == 0 breaks, or the loop sleeps
GracePoll ==
    /\ pc = "grace_poll"
    /\ LET alive_count == Cardinality({i \in 1..Len(terminated_processes) :
                                          alive[terminated_processes[i]]})
       IN pc' = IF remaining > 0 /\ alive_count # 0
                THEN "grace_sleep" ELSE "wait_procs"
    /\ UNCHANGED <<cfgVars, alive, running, stopReason, current_temp, enumerated,
                   trex_processes, callVars, lastTick, histVars>>

\* time.sleep(5) and the next value of the range
GraceSleep ==
    /\ pc = "grace_sleep"
    /\ slept' = slept + PollStep
    /\ graceSlept' = graceSlept + PollStep
    /\ remaining' = NextRemaining(remaining)
    /\ pc' = "grace_poll"
    /\ UNCHANGED <<cfgVars, alive, running, stopReason, current_temp, enumerated,
                   trex_processes, idx, terminated_processes, killPending, sent,
                   outcome, graceRan, aliveAtGraceEnd, goneAtRecheck, returned,
                   lastTick, histVars>>

\* _, alive = psutil.wait_procs(terminated_processes, timeout=0)
WaitProcs ==
    /\ pc = "wait_procs"
    /\ LET stillAlive == {p \in Range(terminated_processes) : alive[p]}
           gone == Range(terminated_processes) \ stillAlive
       IN /\ killPending' = ForceKillSet(stillAlive)
          /\ outcome' = [p \in Procs |->
                           IF p \in gone THEN outcome[p] \cup {"gracefullyExited"}
                           ELSE outcome[p]]
    /\ aliveAtGraceEnd' = {p \in Targets : alive[p]}
    /\ pc' = "force_kill"
    /\ UNCHANGED <<cfgVars, alive, running, stopReason, current_temp, enumerated,
                   trex_processes, idx, terminated_processes, remaining, sent,
                   slept, graceSlept, graceRan, goneAtRecheck, returned, lastTick,
                   histVars>>

\* proc.kill() on one element of `alive` (wait_procs returns them in no
\* particular order)
ForceKill ==
    /\ pc = "force_kill"
    /\ \E p \in killPending :
       \E r \in SignalResults(p) :
          /\ sent' = [sent EXCEPT ![p] = Append(@, Attempt("kill", r))]
          /\ killPending' = killPending \ {p}
          /\ IF r = "ok"
             THEN /\ alive' = [alive EXCEPT ![p] = FALSE]
                  /\ outcome' = [outcome EXCEPT ![p] = @ \cup {"forceKilled"}]
             ELSE /\ outcome' = [outcome EXCEPT ![p] = @ \cup {"killFailed"}]
                  /\ UNCHANGED alive
    /\ UNCHANGED <<cfgVars, pc, running, stopReason, current_temp, enumerated,
                   trex_processes, idx, terminated_processes, remaining, slept,
                   graceSlept, graceRan, aliveAtGraceEnd, goneAtRecheck, returned,
                   lastTick, histVars>>

\* "T-Rex shutdown procedure completed"; return True
Return ==
    /\ pc = "force_kill"
    /\ killPending = {}
    /\ returned' = TRUE
    /\ lastTick' = [lastTick EXCEPT !.orch = TRUE]
    /\ pc' = "cooldown"
    /\ UNCHANGED <<cfgVars, alive, running, stopReason, current_temp, enumerated,
                   trex_processes, idx, terminated_processes, remaining,
                   killPending, sent, outcome, slept, graceSlept, graceRan,
                   aliveAtGraceEnd, goneAtRecheck, histVars>>


\* ------------------------------------------- exceptions reaching run()
OrchPcs == {"send_int", "settle", "recheck", "fallback", "grace_poll",
            "grace_sleep", "wait_procs", "force_kill"}

\* The statements of the inner try of the posix branch (lines 167-172): its
\* bare `except:` catches every BaseException raised there.
BareExceptPcs == {"send_int", "settle", "recheck"}

\* The statements of a tick that no `except Exception` of the tick covers:
\* the threshold comparison and the sleeps of run(), and the countdown loop
\* and wait_procs of graceful_shutdown_trex (lines 185-197).
UncaughtPcs == {"check", "sleep_poll", "cooldown", "grace_poll", "grace_sleep",
                "wait_procs"}

SignalSent == \E p \in Procs : sent[p] # <<>>

\* The operator presses Ctrl-C: KeyboardInterrupt is raised in the statement
\* the watchdog is executing.  In the posix interrupt phase the bare except
\* takes it and goes on with proc.terminate(); everywhere else it unwinds to
\* `except KeyboardInterrupt` of run(), then `finally: self.running = False`.
Interrupt ==
    /\ pc # "stopped"
    /\ interrupts < MaxInterrupts
    /\ interrupts' = interrupts + 1
    /\ intInFlight' = (intInFlight \/ (pc \in OrchPcs /\ SignalSent))
    /\ IF platform = "posix" /\ pc \in BareExceptPcs
       THEN /\ pc' = "fallback"
            /\ UNCHANGED <<running, stopReason>>
       ELSE /\ pc' = "stopped"
            /\ running' = FALSE
            /\ stopReason' = "interrupt"
    /\ UNCHANGED <<cfgVars, alive, current_temp, enumerated, trex_processes,
                   callVars, lastTick, tickAfterInt>>

\* A statement outside every try of the tick raises an Exception: it unwinds
\* to `except Exception` of run(), which is outside the while loop, then
\* `finally: self.running = False`.
TickError ==
    /\ pc \in UncaughtPcs
    /\ pc' = "stopped"
    /\ running' = FALSE
    /\ stopReason' = "error"
    /\ UNCHANGED <<cfgVars, alive, current_temp, enumerated, trex_processes,
                   callVars, lastTick, histVars>>

\* ----------------------------------------------------------- specification
Next ==
    \/ Sample
    \/ CheckUnavailable
    \/ CheckSafe
    \/ CheckHot
    \/ SleepPoll
    \/ CooldownSleep
    \/ ShutdownBegin
    \/ SendInterrupt
    \/ Settle
    \/ Recheck
    \/ Fallback
    \/ GracePoll
    \/ GraceSleep
    \/ WaitProcs
    \/ ForceKill
    \/ Return
    \/ Interrupt
    \/ TickError
    \/ \E p \in Procs : ProcExit(p)

Spec == Init /\ [][Next]_vars


\* ------------------------------------------------------------------ claims
Signals(p) == {sent[p][i].sig : i \in 1..Len(sent[p])}

\* g rounded up to a multiple of the poll step
CeilPoll(g) == ((g + PollStep - 1) \div PollStep) * PollStep

\* The tick has taken its decision (and the loop has not been unwound).
Decided == pc \notin {"check", "stopped"} /\ (pc = "tick" => lastTick.sleep # "none")

\* C1: when a call that went through the grace wait has returned, every
\* target that was running when the wait ended has been sent a kill.
C1_SurvivorsAreKilled ==
    (returned /\ graceRan) => \A p \in aliveAtGraceEnd : "kill" \in Signals(p)

\* C2: the time slept in the grace wait never exceeds grace_period.
C2_GraceWaitWithinPeriod == graceSlept <= grace_period

\* C3 (as stated): the time slept in one call is at most grace_period plus
\* one settle delay, however many targets there are.
C3_OneSettleDelay == returned => slept <= grace_period + SettleDelay

\* C3 (amended): the time slept in one call is at most one settle delay per
\* target plus grace_period rounded up to a multiple of the poll step.
C3_SettlePerTarget ==
    slept <= SettleDelay * Len(trex_processes) + CeilPoll(grace_period)

\* Two targets, one gone at its recheck, the other force-killed after the
\* full default grace period: 2 + 2 + 30 seconds.
C3_Witness ==
    /\ returned
    /\ Len(trex_processes) = 2
    /\ grace_period = DefaultGrace
    /\ Cardinality(goneAtRecheck) = 1
    /\ \E p \in Targets : outcome[p] = {"forceKilled"}
    /\ slept = 2 * SettleDelay + DefaultGrace

\* C4: the loop stops on an external interrupt only.
C4_StopsOnlyOnInterrupt == pc = "stopped" => stopReason = "interrupt"

\* C5: once a tick has decided, the enumeration has run exactly if the
\* sample is a number >= temp_threshold; otherwise the tick only sleeps
\* check_interval seconds and nothing has been signalled.
C5_EnumerationIffHot ==
    Decided =>
        /\ enumerated <=> (current_temp # None /\ current_temp >= temp_threshold)
        /\ ~enumerated =>
              /\ pc \in {"sleep_poll", "tick"}
              /\ ~SignalSent
              /\ pc = "tick" => (lastTick.sleep = "poll" /\ lastTick.secs = check_interval)

\* A reading equal to the threshold has led to the enumeration and on to a
\* shutdown.
C5_Witness == pc = "shutdown" /\ enumerated /\ current_temp = temp_threshold

\* C6: at the top of the next tick, a previous tick that found targets has
\* completed the shutdown and slept the 60-second cooldown; one that found
\* none has slept check_interval and taken no cooldown.  The cooldown is
\* entered from a completed shutdown only.
C6_CooldownAfterShutdown ==
    /\ (pc = "tick" /\ lastTick.sleep # "none") =>
          IF lastTick.found
          THEN lastTick.orch /\ lastTick.sleep = "cooldown" /\ lastTick.secs = Cooldown
          ELSE ~lastTick.orch /\ lastTick.sleep = "poll"
               /\ lastTick.secs = check_interval
    /\ pc = "cooldown" => (returned /\ lastTick.found /\ lastTick.orch)

\* The loop is back at the top after a shutdown and its cooldown.
C6_Witness == pc = "tick" /\ lastTick.found /\ lastTick.sleep = "cooldown"

\* C7: when the call has returned, every target has exactly one outcome.
C7_ExactlyOneOutcome ==
    returned => \A p \in Targets : Cardinality(outcome[p]) = 1

\* C8: when every target was found exited at its recheck, the call has
\* slept nothing beyond the settle delays and has sent neither a terminate
\* nor a kill.
C8_AllExitedSkipsWait ==
    (returned /\ trex_processes # <<>> /\ goneAtRecheck = Targets) =>
        /\ ~graceRan
        /\ graceSlept = 0
        /\ slept = SettleDelay * Len(trex_processes)
        /\ \A p \in Procs : "term" \notin Signals(p) /\ "kill" \notin Signals(p)

\* Two targets, both gone at their recheck.
C8_Witness == returned /\ Len(trex_processes) = 2 /\ goneAtRecheck = Targets

\* C9: a watchdog stopped by an interrupt that arrived in an orchestration
\* in flight has finished that orchestration, and with it the force kill of
\* every target that outlived the grace wait.
C9_InFlightShutdownFinishes ==
    (pc = "stopped" /\ stopReason = "interrupt" /\ intInFlight) =>
        /\ returned
        /\ \A p \in aliveAtGraceEnd : "kill" \in Signals(p)

\* C10: no tick begins after an interrupt has been delivered.
C10_NoTickAfterInterrupt == ~tickAfterInt


\* --------------------------------- find_trex_processes called on its own
MaxNames == 2          \* configured names in a drawn list
MaxSnapshot == 2       \* processes in a drawn snapshot

\* Everything but pc, reported, fnArgs and fnResult, as Init leaves it.
Parked ==
    /\ platform = "posix"
    /\ grace_period = 0
    /\ alive = [p \in Procs |-> TRUE]
    /\ running = TRUE
    /\ stopReason = "none"
    /\ current_temp = None
    /\ enumerated = FALSE
    /\ trex_processes = <<>>
    /\ idx = 0
    /\ terminated_processes = <<>>
    /\ remaining = 0
    /\ killPending = {}
    /\ sent = [p \in Procs |-> <<>>]
    /\ outcome = [p \in Procs |-> {}]
    /\ slept = 0
    /\ graceSlept = 0
    /\ graceRan = FALSE
    /\ aliveAtGraceEnd = {}
    /\ goneAtRecheck = {}
    /\ returned = FALSE
    /\ lastTick = NoTick
    /\ interrupts = 0
    /\ intInFlight = FALSE
    /\ tickAfterInt = FALSE
    /\ mode = "normal"

parkedVars == <<platform, grace_period, alive, running, stopReason, current_temp,
                enumerated, trex_processes, callVars, lastTick, histVars, mode>>

SeqsUpTo(S, n) == UNION {[1..k -> S] : k \in 0..n}

\* names a configuration may list
ConfigNamePool ==
    { <<"t","-","r","e","x">>,
      <<"T","R","e","x",".","e","x","e">>,
      <<"x","m",".","e","x","e">> }

\* process names and joined command lines a snapshot may hold
ProcNamePool ==
    { <<"T","-","R","e","x",".","E","X","E">>, <<"s","h">>, <<"X","M">> }

ProcCmdlinePool ==
    { <<>>, <<"s","h"," ","T","R","e","x">>, <<"s","h"," ","x","m">> }

NameLists == SeqsUpTo(ConfigNamePool, MaxNames) \cup {trex_process_names}

Snapshots ==
    SeqsUpTo([name : ProcNamePool, cmdline : ProcCmdlinePool], MaxSnapshot)

InitMatch ==
    /\ Parked
    /\ pc = "find_call"
    /\ reported = <<>>
    /\ fnArgs \in [names : NameLists, snapshot : Snapshots]
    /\ fnResult = <<>>

\* trex_processes = self.find_trex_processes()
FindCall ==
    /\ pc = "find_call"
    /\ fnResult' = MatchSnapshot(fnArgs.names, fnArgs.snapshot)
    /\ pc' = "find_done"
    /\ UNCHANGED <<parkedVars, reported, fnArgs>>

NextMatch == FindCall

SpecMatch == InitMatch /\ [][NextMatch]_vars

Handles(snap) == [i \in 1..Len(snap) |-> i]

\* C11 (as stated): with no configured name the result is empty.
C11_EmptyNamesEmptyResult ==
    (pc = "find_done" /\ fnArgs.names = <<>>) => fnResult = <<>>

\* C11 (amended): with no configured name the result is, in enumeration
\* order, the handles whose lower-cased command line contains "t-rex" or
\* "trex"; it is empty exactly if there is none.
C11_EmptyNamesCmdlineOnly ==
    (pc = "find_done" /\ fnArgs.names = <<>>) =>
        LET snap == fnArgs.snapshot
            ByCmdline(i) == \E t \in CmdlineTokens : Contains(t, Lower(snap[i].cmdline))
        IN fnResult = SelectSeq(Handles(snap), ByCmdline)

\* No configured name, two processes, the second found by its command line.
C11_Witness ==
    /\ pc = "find_done"
    /\ fnArgs.names = <<>>
    /\ Len(fnArgs.snapshot) = 2
    /\ fnResult = <<2>>


\* a configured name without its executable suffix, lower-cased
BaseToken(n) ==
    LET l == Lower(n) IN
    IF Len(l) >= 4 /\ SubSeq(l, Len(l) - 3, Len(l)) = <<".","e","x","e">>
    THEN SubSeq(l, 1, Len(l) - 4)
    ELSE l

NameContains(names, e) ==
    \E n \in 1..Len(names) : Contains(Lower(names[n]), Lower(e.name))

\* C12 (as stated): the result is, in enumeration order and each handle
\* once, the handles matched by name or, failing that, whose command line
\* contains the base token of a configured name.
C12_MatchByConfiguredTokens ==
    pc = "find_done" =>
        LET snap == fnArgs.snapshot
            names == fnArgs.names
            Wanted(i) ==
                \/ NameContains(names, snap[i])
                \/ \E n \in 1..Len(names) :
                      Contains(BaseToken(names[n]), Lower(snap[i].cmdline))
        IN fnResult = SelectSeq(Handles(snap), Wanted)

\* C12 (amended): the command line is tested against the fixed literals
\* "t-rex" and "trex", whatever the configured names are.
C12_MatchByFixedLiterals ==
    pc = "find_done" =>
        LET snap == fnArgs.snapshot
            Wanted(i) ==
                \/ NameContains(fnArgs.names, snap[i])
                \/ Contains(<<"t","-","r","e","x">>, Lower(snap[i].cmdline))
                \/ Contains(<<"t","r","e","x">>, Lower(snap[i].cmdline))
        IN fnResult = SelectSeq(Handles(snap), Wanted)

\* "T-Rex.EXE" with an empty command line is found under the single
\* configured name "t-rex", after a process that is not.
C12_Witness ==
    /\ pc = "find_done"
    /\ fnArgs.names = << <<"t","-","r","e","x">> >>
    /\ Len(fnArgs.snapshot) = 2
    /\ fnArgs.snapshot[2] = [name |-> <<"T","-","R","e","x",".","E","X","E">>,
                             cmdline |-> <<>>]
    /\ fnResult = <<2>>


\* ------------------------------------------------- main(): the two modes
\* `if temp:` of the dry run
Truthy(t) == t # None /\ t # 0

AfterDryRunFallThrough == "tick"

\* the `return` that ends the dry run (line 353)
AfterDryRun == "exited"

InitMain ==
    /\ mode \in {"normal", "test", "dry"}
    /\ pc = IF mode = "dry" THEN "dry_sample" ELSE "tick"
    /\ platform \in {"nt", "posix"}
    /\ grace_period \in GracePeriods
    /\ alive = [p \in Procs |-> TRUE]
    /\ running = TRUE
    /\ stopReason = "none"
    /\ current_temp = None
    /\ enumerated = FALSE
    /\ trex_processes = <<>>
    /\ idx = 0
    /\ terminated_processes = <<>>
    /\ remaining = 0
    /\ killPending = {}
    /\ sent = [p \in Procs |-> <<>>]
    /\ outcome = [p \in Procs |-> {}]
    /\ slept = 0
    /\ graceSlept = 0
    /\ graceRan = FALSE
    /\ aliveAtGraceEnd = {}
    /\ goneAtRecheck = {}
    /\ returned = FALSE
    /\ lastTick = NoTick
    /\ interrupts = 0
    /\ intInFlight = FALSE
    /\ tickAfterInt = FALSE
    /\ reported = <<>>
    /\ fnArgs = <<>>
    /\ fnResult = <<>>

\* --dry-run: temp = watchdog.get_gpu_temperature()
DrySample ==
    /\ pc = "dry_sample"
    /\ \E r \in Readings : current_temp' = r
    /\ pc' = "dry_check"
    /\ UNCHANGED <<platform, grace_period, mode, reported, fnArgs, fnResult,
                   alive, running, stopReason, enumerated, trex_processes,
                   callVars, lastTick, histVars>>

\* --dry-run: the threshold test, the enumeration and the printed list, then
\* return
DryCheck ==
    /\ pc = "dry_check"
    /\ IF Truthy(current_temp) /\ current_temp >= temp_threshold
       THEN /\ enumerated' = TRUE
            /\ trex_processes' = find_trex_processes(alive)
            /\ reported' = trex_processes'
       ELSE UNCHANGED <<enumerated, trex_processes, reported>>
    /\ pc' = AfterDryRun
    /\ UNCHANGED <<platform, grace_period, mode, fnArgs, fnResult, alive, running,
                   stopReason, current_temp, callVars, lastTick, histVars>>

\* --test-mode: test_shutdown(processes) in place of graceful_shutdown_trex:
\* it prints the count and each pid and returns True
TestShutdown ==
    /\ pc = "shutdown"
    /\ ShutdownImpl(mode) = "test_shutdown"
    /\ reported' = trex_processes
    /\ returned' = TRUE
    /\ lastTick' = [lastTick EXCEPT !.orch = TRUE]
    /\ pc' = "cooldown"
    /\ UNCHANGED <<platform, grace_period, mode, fnArgs, fnResult, alive, running,
                   stopReason, current_temp, enumerated, trex_processes, idx,
                   terminated_processes, remaining, killPending, sent, outcome,
                   slept, graceSlept, graceRan, aliveAtGraceEnd, goneAtRecheck,
                   histVars>>

NextMain == Next \/ DrySample \/ DryCheck \/ TestShutdown

SpecMain == InitMain /\ [][NextMain]_vars

\* C13 (as stated): a test-mode shutdown goes through the steps of the
\* normal one with the signals left out, so it has slept one settle delay
\* for every target before it returns.
C13_TestModeRunsOrchestration ==
    (mode = "test" /\ returned /\ trex_processes # <<>>) =>
        slept >= SettleDelay * Len(trex_processes)

\* C13 (amended): test mode runs the loop of normal mode (sample, threshold
\* test, enumeration, 60-second cooldown) but replaces the whole shutdown by
\* a report of the targets: no signal, no settle delay, no liveness recheck,
\* no grace wait and no force kill.
C13_TestModeReportsOnly ==
    mode = "test" =>
        /\ pc \notin OrchPcs
        /\ ~SignalSent
        /\ slept = 0 /\ graceSlept = 0 /\ ~graceRan
        /\ goneAtRecheck = {} /\ terminated_processes = <<>>
        /\ returned => (trex_processes # <<>> /\ reported = trex_processes)
        /\ pc = "cooldown" => returned
        /\ (pc = "tick" /\ lastTick.sleep # "none") =>
              IF lastTick.found
              THEN lastTick.sleep = "cooldown" /\ lastTick.secs = Cooldown
              ELSE lastTick.sleep = "poll" /\ lastTick.secs = check_interval

\* Test mode is back at the top of the loop after reporting two targets and
\* sleeping the cooldown.
C13_Witness ==
    /\ mode = "test"
    /\ pc = "tick"
    /\ lastTick.found /\ lastTick.sleep = "cooldown"
    /\ Len(reported) = 2

DryPcs == {"dry_sample", "dry_check", "exited", "stopped"}

HotReading == current_temp # None /\ current_temp >= temp_threshold

\* C14: in dry-run and in test mode no signal is ever attempted; the dry run
\* never enters the loop, samples once, and on leaving has enumerated and
\* reported the matched processes exactly if the reading is >= threshold.
C14_NoSignalInDiagnosticModes ==
    /\ [](mode \in {"test", "dry"} => ~SignalSent)
    /\ [](mode = "dry" =>
            /\ pc \in DryPcs
            /\ pc = "dry_sample" => (current_temp = None /\ ~enumerated)
            /\ pc = "exited" => (enumerated <=> HotReading)
            /\ ~enumerated => reported = <<>>)
    /\ [][(mode = "dry" /\ pc # "dry_sample") => current_temp' = current_temp]_vars
    /\ [][(mode = "dry" /\ pc = "dry_check" /\ pc' = "exited" /\ HotReading) =>
              reported' = find_trex_processes(alive)]_vars

\* A dry run has ended with a reading at the threshold and both miners
\* reported.
C14_Witness ==
    /\ mode = "dry"
    /\ pc = "exited"
    /\ current_temp = temp_threshold
    /\ Len(reported) = 2


\* --------------------------------- get_gpu_temperature called on its own
MaxLines == 2          \* lines in a drawn nvidia-smi output

Digits == <<"0","1","2","3","4","5","6","7","8","9">>

IsDigit(c) == \E d \in 1..10 : Digits[d] = c

DigitValue(c) == (CHOOSE d \in 1..10 : Digits[d] = c) - 1

RECURSIVE Strip(_)
\* str.strip(), for blanks
Strip(s) ==
    IF s = <<>> THEN s
    ELSE IF Head(s) = " " THEN Strip(Tail(s))
    ELSE IF s[Len(s)] = " " THEN Strip(SubSeq(s, 1, Len(s) - 1))
    ELSE s

IsDot(c) == c = "."
NotDot(c) == c # "."

\* temp_str.replace('.', '')
WithoutDots(s) == SelectSeq(s, NotDot)

\* str.isdigit()
AllDigits(s) == s # <<>> /\ \A i \in 1..Len(s) : IsDigit(s[i])

\* `if temp_str and temp_str.replace('.', '').isdigit()`
PassesFilter(s) == s # <<>> /\ AllDigits(WithoutDots(s))

\* float(temp_str) of a string of digits and dots raises ValueError when
\* there is more than one dot
FloatRaises(s) == Len(SelectSeq(s, IsDot)) > 1

RECURSIVE Pow10(_)
Pow10(n) == IF n = 0 THEN 1 ELSE 10 * Pow10(n - 1)

RECURSIVE NatOf(_)
\* the number a string of digits denotes (0 for the empty one)
NatOf(s) == IF s = <<>> THEN 0 ELSE 10 * NatOf(SubSeq(s, 1, Len(s) - 1))
                                     + DigitValue(s[Len(s)])

\* the lines an output may hold
LinePool ==
    { <<"7","0">>, <<"8","5">>, <<"9",".","5">>, <<"7",".">>,
      <<"1",".","2",".","3">>, <<"N">>, <<"-","5">>, <<" ","9","0"," ">>, <<>> }

\* A float is kept as a whole number of units of 10^-FracWidth.
FracWidth == CHOOSE w \in {Len(l) : l \in LinePool} :
                 \A l \in LinePool : Len(l) <= w

\* float(temp_str) of a string of digits with at most one dot
FloatOf(s) ==
    LET dot == IF \E i \in 1..Len(s) : s[i] = "."
               THEN CHOOSE i \in 1..Len(s) : s[i] = "." ELSE Len(s) + 1
        whole == SubSeq(s, 1, dot - 1)
        frac == SubSeq(s, dot + 1, Len(s))
    IN NatOf(whole) * Pow10(FracWidth) + NatOf(frac) * Pow10(FracWidth - Len(frac))

SetMax(S) == CHOOSE m \in S : \A x \in S : x <= m

\* the body of get_gpu_temperature once nvidia-smi has run: returncode and
\* the lines of stdout.strip().split('\n')
get_gpu_temperature(returncode, lines) ==
    LET stripped == [i \in 1..Len(lines) |-> Strip(lines[i])]
        kept == {i \in 1..Len(lines) : PassesFilter(stripped[i])}
    IN IF returncode # 0 THEN None
       ELSE IF \E i \in kept : FloatRaises(stripped[i]) THEN None
       ELSE IF kept = {} THEN None
       ELSE SetMax({FloatOf(stripped[i]) : i \in kept})

InitTemp ==
    /\ Parked
    /\ pc = "temp_call"
    /\ reported = <<>>
    /\ fnArgs \in [returncode : {0, 1}, lines : SeqsUpTo(LinePool, MaxLines)]
    /\ fnResult = None

\* current_temp = self.get_gpu_temperature()
TempCall ==
    /\ pc = "temp_call"
    /\ fnResult' = get_gpu_temperature(fnArgs.returncode, fnArgs.lines)
    /\ pc' = "temp_done"
    /\ UNCHANGED <<parkedVars, reported, fnArgs>>

NextTemp == TempCall

SpecTemp == InitTemp /\ [][NextTemp]_vars

\* a line that is a non-negative decimal number: digits with at most one dot
ParsesAsNumber(s) ==
    /\ \E i \in 1..Len(s) : IsDigit(s[i])
    /\ \A i \in 1..Len(s) : IsDigit(s[i]) \/ s[i] = "."
    /\ Cardinality({i \in 1..Len(s) : s[i] = "."}) <= 1

\* C15: for a successful query the result is the maximum of the lines that
\* parse as non-negative numbers, and None exactly when no line parses.
C15_MaxOfParsableLines ==
    (pc = "temp_done" /\ fnArgs.returncode = 0) =>
        LET lines == fnArgs.lines
            good == {i \in 1..Len(lines) : ParsesAsNumber(Strip(lines[i]))}
        IN fnResult = IF good = {} THEN None
                      ELSE SetMax({FloatOf(Strip(lines[i])) : i \in good})


\* ------------------------------ graceful_shutdown_trex called on its own
MaxCalls == 1          \* repetitions of the call on the same list

\* the lists a caller may pass: any handles, none twice
TargetLists == {s \in SeqsUpTo(Procs, NumProcs) :
                   \A i, j \in 1..Len(s) : i # j => s[i] # s[j]}

\* watchdog.graceful_shutdown_trex(processes); fnArgs is `processes` and
\* fnResult the values the calls have returned
InitCall ==
    /\ platform \in {"nt", "posix"}
    /\ grace_period \in {0, PollStep}
    /\ alive = [p \in Procs |-> TRUE]
    /\ pc = "shutdown"
    /\ running = TRUE
    /\ stopReason = "none"
    /\ current_temp = None
    /\ enumerated = FALSE
    /\ trex_processes \in TargetLists
    /\ idx = 0
    /\ terminated_processes = <<>>
    /\ remaining = 0
    /\ killPending = {}
    /\ sent = [p \in Procs |-> <<>>]
    /\ outcome = [p \in Procs |-> {}]
    /\ slept = 0
    /\ graceSlept = 0
    /\ graceRan = FALSE
    /\ aliveAtGraceEnd = {}
    /\ goneAtRecheck = {}
    /\ returned = FALSE
    /\ lastTick = NoTick
    /\ interrupts = 0
    /\ intInFlight = FALSE
    /\ tickAfterInt = FALSE
    /\ mode = "normal"
    /\ reported = <<>>
    /\ fnArgs = trex_processes
    /\ fnResult = <<>>

\* the call has returned True; the caller calls again with the same list
CallAgain ==
    /\ pc = "cooldown"
    /\ returned
    /\ Len(fnResult) < MaxCalls
    /\ fnResult' = Append(fnResult, TRUE)
    /\ pc' = "shutdown"
    /\ trex_processes' = fnArgs
    /\ UNCHANGED <<platform, grace_period, mode, reported, fnArgs, alive, running,
                   stopReason, current_temp, enumerated, callVars, lastTick,
                   histVars>>

NextCall ==
    \/ ShutdownBegin
    \/ SendInterrupt
    \/ Settle
    \/ Recheck
    \/ Fallback
    \/ GracePoll
    \/ GraceSleep
    \/ WaitProcs
    \/ ForceKill
    \/ Return
    \/ CallAgain
    \/ \E p \in Procs : ProcExit(p)

SpecCall == InitCall /\ [][NextCall]_vars

\* C16: a call with an empty list returns True at once: outside the moment
\* of the call itself it is never found inside the orchestration, it has
\* sent no signal, slept no second and recorded nothing about any process,
\* and that stays so for every repetition of the call.
C16_EmptyCallIsNoOp ==
    (fnArgs = <<>> /\ pc # "shutdown") =>
        /\ pc = "cooldown"
        /\ returned
        /\ \A p \in Procs : sent[p] = <<>> /\ outcome[p] = {}
        /\ slept = 0
        /\ graceSlept = 0
        /\ ~graceRan
        /\ killPending = {}
        /\ terminated_processes = <<>>

\* the second call with an empty list has returned, with a process running
C16_Witness ==
    /\ fnArgs = <<>>
    /\ pc = "cooldown"
    /\ returned
    /\ Len(fnResult) >= 1
    /\ \E p \in Procs : alive[p]


\* ------------------------------------------- the escalation per target
\* The interrupt attempts on p that raised.
FailedInterrupts(p) ==
    {i \in 1..Len(sent[p]) : sent[p][i].sig = "int" /\ sent[p][i].res # "ok"}

\* Attempt i on p is followed at once by a terminate: the next attempt on p
\* is a terminate made with no second slept in between.
TerminateFollows(p, i) ==
    /\ i < Len(sent[p])
    /\ sent[p][i + 1].sig = "term"
    /\ sent[p][i + 1].at = sent[p][i].at

\* p was sent a terminate that did not raise.
TerminateDelivered(p) ==
    \E i \in 1..Len(sent[p]) : sent[p][i].sig = "term" /\ sent[p][i].res = "ok"

\* The call is past the except branch of the current target and the loop
\* has not been unwound.
PastFallback == pc \notin {"fallback", "stopped"}

\* A target whose terminate was delivered is in the list the grace wait
\* polls, and is killed if it is running when the wait ends.
FallbackTargetsArePolled ==
    \A p \in Procs :
        TerminateDelivered(p) =>
            /\ p \in Range(terminated_processes)
            /\ (returned /\ p \in aliveAtGraceEnd) => "kill" \in Signals(p)

\* C17 (as stated): every interrupt that could not be delivered (denied, OS
\* error, process vanished) is followed at once, with no settle delay, by a
\* terminate to the same target, and a target whose terminate was delivered
\* is polled in the grace wait and killed if it survives it.
C17_FailedInterruptFallsBack ==
    /\ PastFallback =>
          \A p \in Procs : \A i \in FailedInterrupts(p) : TerminateFollows(p, i)
    /\ FallbackTargetsArePolled

\* C17 (amended): the same, except that on Windows an interrupt that raised
\* NoSuchProcess is followed by no terminate at all.
C17_FallbackUnlessVanishedOnNt ==
    /\ PastFallback =>
          \A p \in Procs : \A i \in FailedInterrupts(p) :
              IF platform = "nt" /\ sent[p][i].res = "gone"
              THEN Len(sent[p]) = i
              ELSE TerminateFollows(p, i)
    /\ FallbackTargetsArePolled

\* A returned call in which a target's interrupt was denied, its terminate
\* was delivered with no second slept in between, the grace wait ran with
\* the target in it and the target, still running at the end, was killed;
\* and another target vanished before its interrupt.
C17_Witness ==
    /\ returned
    /\ graceRan
    /\ \E p \in Targets :
          /\ Len(sent[p]) = 3
          /\ sent[p][1].sig = "int" /\ sent[p][1].res = "denied"
          /\ sent[p][2].sig = "term" /\ sent[p][2].res = "ok"
          /\ sent[p][2].at = sent[p][1].at
          /\ p \in Range(terminated_processes)
          /\ p \in aliveAtGraceEnd
          /\ sent[p][3].sig = "kill"
    /\ \E q \in Targets : sent[q][1].sig = "int" /\ sent[q][1].res = "gone"

\* The attempts on p with signal sig.
AttemptsOf(p, sig) == {i \in 1..Len(sent[p]) : sent[p][i].sig = sig}

\* The rank of a signal in the escalation interrupt, terminate, kill.
Rank(sig) == CASE sig = "int" -> 1 [] sig = "term" -> 2 [] sig = "kill" -> 3

\* The attempts of one call on p: each signal at most once and in the
\* order of the escalation; a terminate only after an interrupt that
\* raised; a kill only after the grace wait.
SingleEscalation(p) ==
    /\ \A sig \in {"int", "term", "kill"} : Cardinality(AttemptsOf(p, sig)) <= 1
    /\ \A i, j \in 1..Len(sent[p]) :
          i < j => Rank(sent[p][i].sig) < Rank(sent[p][j].sig)
    /\ \A j \in AttemptsOf(p, "term") :
          \E i \in FailedInterrupts(p) : i < j
    /\ AttemptsOf(p, "kill") # {} =>
          /\ pc \in {"force_kill", "cooldown", "stopped"}
          /\ p \in aliveAtGraceEnd

\* C18: within one call each target is sent at most one interrupt, at most
\* one terminate and only when its interrupt raised, and at most one kill
\* and only after the grace wait has ended, in that order.
C18_NoRetries == \A p \in Procs : SingleEscalation(p)

\* The same while the operator has not pressed Ctrl-C.
NoRetriesUninterrupted == interrupts = 0 => C18_NoRetries

\* C19: a target found exited at the recheck after its settle delay is not
\* in the list the grace wait counts and polls, is not queued for the force
\* kill, and has been sent neither a terminate nor a kill.
C19_ExitedAtRecheckIsDropped ==
    \A p \in goneAtRecheck :
        /\ p \notin Range(terminated_processes)
        /\ p \notin killPending
        /\ "term" \notin Signals(p)
        /\ "kill" \notin Signals(p)

\* A returned call with two targets: one exited at its recheck and was sent
\* the interrupt only, the other went through the grace wait and was killed.
C19_Witness ==
    /\ returned
    /\ graceRan
    /\ \E p \in goneAtRecheck : Len(sent[p]) = 1 /\ sent[p][1].sig = "int"
    /\ \E q \in Targets \ goneAtRecheck : "kill" \in Signals(q)

\* The for loop of the interrupt phase has ended.
InterruptPhaseOver ==
    /\ trex_processes # <<>>
    /\ pc \in {"grace_poll", "grace_sleep", "wait_procs", "force_kill", "cooldown"}

\* C20: once the interrupt phase is over every target in the list has had
\* its attempt, the interrupt itself unless the operator pressed Ctrl-C, and
\* once the call has returned every target whose own signal was delivered
\* and that was running at the end of the grace wait has been sent its
\* kill, whatever happened to the other targets.
C20_TargetsIndependent ==
    /\ InterruptPhaseOver =>
          \A p \in Targets :
              /\ sent[p] # <<>>
              /\ sent[p][1].sig = "int" \/ interrupts > 0
    /\ returned =>
          \A p \in Range(terminated_processes) :
              p \in aliveAtGraceEnd => "kill" \in Signals(p)

\* A returned call on Windows whose first target had vanished (its interrupt
\* raised NoSuchProcess) and whose second target was interrupted, outlived
\* the grace wait and was killed.
C20_Witness ==
    /\ returned
    /\ platform = "nt"
    /\ Len(trex_processes) = 2
    /\ LET p == trex_processes[1]
           q == trex_processes[2]
       IN /\ Len(sent[p]) = 1
          /\ sent[p][1].sig = "int" /\ sent[p][1].res = "gone"
          /\ Len(sent[q]) = 2
          /\ sent[q][1].sig = "int" /\ sent[q][1].res = "ok"
          /\ q \in aliveAtGraceEnd
          /\ sent[q][2].sig = "kill"

====
